---- MODULE Spec2Model ----
(***************************************************************************)
(* The conversation manager of the chat widget (createConversation).       *)
(*                                                                         *)
(* JavaScript objects are records that hold exactly the keys the code      *)
(* writes; a key whose value is undefined holds Undefined, and reading a   *)
(* key an object does not have gives Undefined (Get).                      *)
(*                                                                         *)
(* Spec is the whole manager on both transports, all of a run within one   *)
(* reading of the clock; SpecChoice is the choice rewrite with more choice *)
(* ids and with the clock advancing; SpecSubscribers has two subscribers   *)
(* that can be told apart.  In these the subscribers only read what they   *)
(* are called with and return.  SpecMutatingSubscriber adds a subscriber   *)
(* that writes to the array it is called with, and SpecThrowingSubscriber  *)
(* one that throws, and SpecReentrantSubscriber one that calls unsubscribe *)
(* from inside its callback.                                               *)
(***************************************************************************)
EXTENDS Integers, Sequences, FiniteSets, TLC

\* ------------------------------------------------------------------ bounds
\* outbound calls (sendToBot) per manager, the welcome intent included
MaxSends == 2
\* inbound frames delivered by the socket
MaxFrames == 1
\* registrations in the subscriber list
MaxSubs == 2
\* the clock reads 0 when the manager is made and at most MaxTime later on
MaxTime == 1

VARIABLES
    config,       \* the Config createConversation was called with
    state,        \* let state: InternalState
    subscribers,  \* let subscribers: Subscriber[]
    socket,       \* readyState of let socket: WebSocket ("none" on the unary transport)
    inflight,     \* the promises sendToBot returned that have not settled, by call number
    calls,        \* how many times sendToBot has been called
    frames,       \* how many inbound frames the socket has delivered
    now,          \* new Date().getTime()
    alive,        \* createConversation returned the handler
    lastOp,       \* the operation, callback or event that ran last
    threw,        \* whether it threw to its caller
    effects,      \* the subscriber calls and transport calls it made, in order
    hist          \* how many sendText, sendChoice and bot replies there have been,
                  \* whether reset was called since the last send, and the
                  \* conversationId of the last reply applied since the last reset

vars == <<config, state, subscribers, socket, inflight, calls, frames, now,
          alive, lastOp, threw, effects, hist>>

\* ------------------------------------------------------------ JS values
Undefined == "undefined"

Get(obj, key) == IF key \in DOMAIN obj THEN obj[key] ELSE Undefined

Has(obj, key) == key \in DOMAIN obj

\* { ...obj, ...change }
Spread(obj, change) ==
    [k \in DOMAIN obj \cup DOMAIN change |->
        IF k \in DOMAIN change THEN change[k] ELSE obj[k]]

\* array.map(f)
Map(f(_), array) == [i \in DOMAIN array |-> f(array[i])]

\* ------------------------------------------------------------ inputs
Texts == {"hello"}

ChoiceIds == {"a", "z"}

Subscribers == {"f"}

ChoiceMessages ==
    << [messageId |-> "m1", text |-> "Pick one",
        choices |-> << [choiceId |-> "a", choiceText |-> "A"],
                       [choiceId |-> "b", choiceText |-> "B"] >>] >>

PlainMessages == << [text |-> "ok"] >>

\* the wire payload (inbound) of a bot reply
Payloads ==
    { [conversationId |-> "c1", messages |-> ChoiceMessages],
      [conversationId |-> "c2", messages |-> PlainMessages] }

\* JSON null, and a JSON object without a messages list
Null == [null |-> TRUE]

NoMessages == [conversationId |-> "c1"]

Pending == [isPending |-> TRUE]

Bodies == Payloads \cup {Null, NoMessages}

\* what the socket may deliver: a binary frame, or text that parses or not
Frames ==
    {[binary |-> TRUE], [text |-> "garbage"]} \cup {[text |-> "json", json |-> p] : p \in Bodies}

\* the configurations: an option that is not given is a key the record lacks.
\* Both transports, with and without the welcome intent and the context; the
\* options that only supply values (userId, greetingMessages, failureMessages)
\* are each given in half of them, on either transport
Option(key, value, given) == IF given THEN key :> value ELSE << >>

Configs ==
    { [botUrl |-> url, triggerWelcomeIntent |-> welcome]
        @@ Option("userId", "u1", welcome # ctx)
        @@ Option("greetingMessages", <<"Hi">>, welcome # ctx)
        @@ Option("failureMessages", <<"Oops", "Retry">>, welcome = ctx)
        @@ Option("context", "ctx", ctx) :
        url \in {"https://bot", "wss://bot"}, welcome \in BOOLEAN, ctx \in BOOLEAN }

\* ------------------------------------------------------------ the manager
defaultFailureMessages ==
    << "We encountered an issue while contacting the server. Please try again in a few moments." >>

fromInternal(internalState) == internalState.responses

isUsingWebSockets(cfg) == cfg.botUrl \in {"wss://bot"}

GreetingMessage(greetingMessage) ==
    [messageId |-> Undefined, text |-> greetingMessage, choices |-> << >>,
     selectedChoiceId |-> Undefined]

InitialState(cfg, time) ==
    [responses |->
        IF Has(cfg, "greetingMessages") /\ Len(cfg.greetingMessages) > 0
        THEN << [type |-> "bot", receivedAt |-> time,
                 payload |-> [conversationId |-> Undefined,
                              messages |-> Map(GreetingMessage, cfg.greetingMessages)]] >>
        ELSE << >>,
     userId |-> Get(cfg, "userId"),
     conversationId |-> Undefined,
     contextSent |-> FALSE]

\* the state setState leaves
setState(st, change) == Spread(st, change)

\* the subscribers called last registered first
NotificationsReversed(subs, st) ==
    [i \in DOMAIN subs |->
        [kind |-> "notify", fn |-> subs[Len(subs) + 1 - i], snapshot |-> fromInternal(st)]]

\* the calls setState makes: subscribers.forEach(subscriber => subscriber(fromInternal(state)))
Notifications(subs, st) ==
    [i \in DOMAIN subs |-> [kind |-> "notify", fn |-> subs[i], snapshot |-> fromInternal(st)]]

FailureMessage(messageBody) == [text |-> messageBody, choices |-> << >>]

\* the built-in message whatever the configuration says
FailureResponseDefaultOnly(cfg, time) ==
    [type |-> "bot", receivedAt |-> time,
     payload |-> [messages |-> Map(FailureMessage, defaultFailureMessages)]]

FailureResponse(cfg, time) ==
    [type |-> "bot", receivedAt |-> time,
     payload |-> [messages |->
        Map(FailureMessage,
            IF Has(cfg, "failureMessages") THEN cfg.failureMessages
            ELSE defaultFailureMessages)]]

\* a failure that makes the next send carry the context again
failureHandlerResendsContext(cfg, st, time) ==
    setState(st, [responses |-> Append(st.responses, FailureResponse(cfg, time)),
                  contextSent |-> FALSE])

\* a failure that starts the conversation over
failureHandlerStartsOver(cfg, st, time) ==
    setState(st, [responses |-> Append(st.responses, FailureResponse(cfg, time)),
                  conversationId |-> Undefined])

failureHandler(cfg, st, time) ==
    setState(st, [responses |-> Append(st.responses, FailureResponse(cfg, time))])

MapMessage(message) ==
    [messageId |-> Get(message, "messageId"),
     text |-> Get(message, "text"),
     choices |-> IF Has(message, "choices") THEN message.choices ELSE << >>]

IsPending(response) == Has(response, "isPending") /\ response.isPending

\* if (response && !response.isPending)
Applies(response) == response # Null /\ ~IsPending(response)

\* response.messages.map(...) of a response without messages is a TypeError
HandlerThrows(response) == Applies(response) /\ ~Has(response, "messages")

BotResponseOf(response, time) ==
    [type |-> "bot", receivedAt |-> time,
     payload |-> [conversationId |-> Get(response, "conversationId"),
                  messages |-> Map(MapMessage, response.messages),
                  metadata |-> Get(response, "metadata"),
                  payload |-> Get(response, "payload"),
                  context |-> Get(response, "context")]]

\* the conversationId taken from the first reply only
messageResposeHandlerKeepsFirst(st, response, time) ==
    IF Applies(response)
    THEN setState(st, [conversationId |-> IF st.conversationId = Undefined
                                          THEN Get(response, "conversationId")
                                          ELSE st.conversationId,
                       responses |-> Append(st.responses, BotResponseOf(response, time))])
    ELSE st

\* a reply put in the place of the bot entry before it
messageResposeHandlerOverwrites(st, response, time) ==
    IF Applies(response)
    THEN setState(st, [conversationId |-> Get(response, "conversationId"),
                       responses |->
                           IF st.responses # << >> /\ st.responses[Len(st.responses)].type = "bot"
                           THEN [st.responses EXCEPT ![Len(st.responses)] =
                                    BotResponseOf(response, time)]
                           ELSE Append(st.responses, BotResponseOf(response, time))])
    ELSE st

\* the state messageResposeHandler leaves when it does not throw
messageResposeHandler(st, response, time) ==
    IF Applies(response)
    THEN setState(st, [conversationId |-> Get(response, "conversationId"),
                       responses |-> Append(st.responses, BotResponseOf(response, time))])
    ELSE st

\* JSON.stringify leaves out the keys whose value is undefined
OptionalKeys == {"userId", "conversationId", "languageCode", "channelType"}

Stringify(body) ==
    [k \in {j \in DOMAIN body : ~(j \in OptionalKeys /\ body[j] = Undefined)} |-> body[k]]

\* sendToBot's argument, as every send* builds it
RequestBody(st, request) ==
    [userId |-> st.userId, conversationId |-> st.conversationId, request |-> request]

bodyWithContext(cfg, st, body) ==
    Spread(Spread(IF Has(cfg, "context") /\ ~st.contextSent
                  THEN [context |-> cfg.context] ELSE << >>,
                  body),
           [languageCode |-> Get(cfg, "languageCode"),
            channelType |-> Get(cfg, "channelType")])

\* socket.send throws InvalidStateError while the socket is connecting, and
\* discards the data without an error once it is closing or closed
SendThrows(cfg, sock) == isUsingWebSockets(cfg) /\ sock = "connecting"

Transport(cfg, sock) ==
    IF ~isUsingWebSockets(cfg) THEN "fetch"
    ELSE IF sock = "connecting" THEN "threw"
    ELSE IF sock = "open" THEN "written" ELSE "discarded"

\* sendToBot: the state it leaves, the call it makes on the transport, and
\* whether that call throws (no promise is returned then)
sendToBot(cfg, st, sock, request) ==
    [state |-> [st EXCEPT !.contextSent = TRUE],
     call |-> [kind |-> "send",
               body |-> Stringify(bodyWithContext(cfg, st, RequestBody(st, request))),
               transport |-> Transport(cfg, sock)],
     threw |-> SendThrows(cfg, sock)]

Offers(botMessage, choiceId) ==
    \E i \in DOMAIN botMessage.choices : botMessage.choices[i].choiceId = choiceId

\* the selection of a message that does not offer the choice is cleared
SelectChoiceClearsOthers(botMessage, choiceId) ==
    Spread(botMessage,
           [selectedChoiceId |-> IF Offers(botMessage, choiceId) THEN choiceId ELSE Undefined])

\* selecting the selected choice again takes the selection back
SelectChoiceToggles(botMessage, choiceId) ==
    Spread(botMessage,
           [selectedChoiceId |->
              IF Offers(botMessage, choiceId)
              THEN (IF Get(botMessage, "selectedChoiceId") = choiceId
                    THEN Undefined ELSE choiceId)
              ELSE Get(botMessage, "selectedChoiceId")])

\* botMessage => ({...botMessage, selectedChoiceId: ...}) of sendChoice
SelectChoice(botMessage, choiceId) ==
    Spread(botMessage,
           [selectedChoiceId |->
              IF Offers(botMessage, choiceId)
              THEN choiceId
              ELSE Get(botMessage, "selectedChoiceId")])

\* the rewrite without ...response.payload: the payload keeps its messages only
SelectInResponseMessagesOnly(response, choiceId) ==
    IF response.type = "bot"
    THEN Spread(response,
                [payload |-> [messages |-> [i \in DOMAIN response.payload.messages |->
                        SelectChoice(response.payload.messages[i], choiceId)]]])
    ELSE response

SelectInResponse(response, choiceId) ==
    IF response.type = "bot"
    THEN Spread(response,
                [payload |-> Spread(response.payload,
                    [messages |-> [i \in DOMAIN response.payload.messages |->
                        SelectChoice(response.payload.messages[i], choiceId)]])])
    ELSE response

UserText(text, time) ==
    [type |-> "user", receivedAt |-> time, payload |-> [type |-> "text", text |-> text]]

UserChoice(choiceId, time) ==
    [type |-> "user", receivedAt |-> time,
     payload |-> [type |-> "choice", choiceId |-> choiceId]]

\* sendChoice without its user turn
newResponsesNoTurn(responses, choiceId, time) ==
    [i \in DOMAIN responses |-> SelectInResponse(responses[i], choiceId)]

newResponses(responses, choiceId, time) ==
    Append([i \in DOMAIN responses |-> SelectInResponse(responses[i], choiceId)],
           UserChoice(choiceId, time))

currentConversationId == state.conversationId

\* the request dispatched before the user turn is published
SendThenAppend(notifications, call) == << call >> \o notifications

\* sendText and sendChoice: setState(...) first, sendToBot(...) after it
AppendThenSend(notifications, call) == notifications \o << call >>

\* ------------------------------------------------------------ actions
WelcomeIntent == "NLX.Welcome"

Init ==
    /\ config \in Configs
    /\ now = 0
    /\ subscribers = << >>
    /\ socket = IF isUsingWebSockets(config) THEN "connecting" ELSE "none"
    /\ frames = 0
    /\ hist = [sendText |-> 0, sendChoice |-> 0, replies |-> 0,
               afterReset |-> FALSE, lastReplyId |-> Undefined]
    /\ lastOp = "createConversation"
    /\ IF config.triggerWelcomeIntent
       THEN LET d == sendToBot(config, InitialState(config, 0),
                               IF isUsingWebSockets(config) THEN "connecting" ELSE "none",
                               [structured |-> [intentId |-> WelcomeIntent]])
            IN /\ state = d.state
               /\ effects = << d.call >>
               /\ calls = 1
               /\ inflight = IF d.threw THEN {} ELSE {1}
               /\ threw = d.threw
               /\ alive = ~d.threw
       ELSE /\ state = InitialState(config, 0)
            /\ effects = << >>
            /\ calls = 0
            /\ inflight = {}
            /\ threw = FALSE
            /\ alive = TRUE

CanSend == alive /\ calls < MaxSends

\* the tail every send* shares, after the subscriber calls it made before it:
\* sendToBot(...).then(messageResposeHandler).catch(failureHandler)
Dispatch(st, request, notifications) ==
    LET d == sendToBot(config, st, socket, request)
    IN /\ state' = d.state
       /\ effects' = AppendThenSend(notifications, d.call)
       /\ calls' = calls + 1
       /\ inflight' = IF d.threw THEN inflight ELSE inflight \cup {calls + 1}
       /\ threw' = d.threw

sendText(text) ==
    /\ CanSend
    /\ LET st == setState(state, [responses |-> Append(state.responses, UserText(text, now))])
       IN Dispatch(st, [unstructured |-> [text |-> text]], Notifications(subscribers, st))
    /\ hist' = [hist EXCEPT !.sendText = @ + 1, !.afterReset = FALSE]
    /\ lastOp' = "sendText"
    /\ UNCHANGED <<config, subscribers, socket, frames, now, alive>>

\* the sends that append no user turn
StructuredRequests == {[choiceId |-> "a"]}

SlotLists == { << [slotId |-> "s1", value |-> "v"] >> }

IntentIds == {"i1"}

DispatchOnly(request) ==
    /\ CanSend
    /\ Dispatch(state, request, << >>)
    /\ hist' = [hist EXCEPT !.afterReset = FALSE]
    /\ UNCHANGED <<config, subscribers, socket, frames, now, alive>>

sendStructured(structured) ==
    /\ DispatchOnly([structured |-> structured])
    /\ lastOp' = "sendStructured"

sendSlots(slots) ==
    /\ DispatchOnly([structured |-> [slots |-> slots]])
    /\ lastOp' = "sendSlots"

sendIntent(intentId) ==
    /\ DispatchOnly([structured |-> [intentId |-> intentId]])
    /\ lastOp' = "sendIntent"

sendChoice(choiceId) ==
    /\ CanSend
    /\ LET st == setState(state, [responses |-> newResponses(state.responses, choiceId, now)])
       IN Dispatch(st, [structured |-> [choiceId |-> choiceId]], Notifications(subscribers, st))
    /\ hist' = [hist EXCEPT !.sendChoice = @ + 1, !.afterReset = FALSE]
    /\ lastOp' = "sendChoice"
    /\ UNCHANGED <<config, subscribers, socket, frames, now, alive>>

\* subscribe without the call of the new subscriber
subscribeSilently(subscriber) ==
    /\ alive
    /\ Len(subscribers) < MaxSubs
    /\ subscribers' = Append(subscribers, subscriber)
    /\ effects' = << >>
    /\ lastOp' = "subscribe"
    /\ threw' = FALSE
    /\ UNCHANGED <<config, state, socket, inflight, calls, frames, now, alive, hist>>

subscribe(subscriber) ==
    /\ alive
    /\ Len(subscribers) < MaxSubs
    /\ subscribers' = Append(subscribers, subscriber)
    /\ effects' = << [kind |-> "notify", fn |-> subscriber, snapshot |-> fromInternal(state)] >>
    /\ lastOp' = "subscribe"
    /\ threw' = FALSE
    /\ UNCHANGED <<config, state, socket, inflight, calls, frames, now, alive, hist>>

\* array without its first element equal to x
RemoveFirst(array, x) ==
    IF \E i \in DOMAIN array : array[i] = x
    THEN LET first == CHOOSE i \in DOMAIN array :
                          array[i] = x /\ \A j \in 1..(i - 1) : array[j] # x
         IN SubSeq(array, 1, first - 1) \o SubSeq(array, first + 1, Len(array))
    ELSE array

\* unsubscribe that removes one registration only
unsubscribeFirst(subscriber) ==
    /\ alive
    /\ subscribers' = RemoveFirst(subscribers, subscriber)
    /\ effects' = << >>
    /\ lastOp' = "unsubscribe"
    /\ threw' = FALSE
    /\ UNCHANGED <<config, state, socket, inflight, calls, frames, now, alive, hist>>

unsubscribe(subscriber) ==
    /\ alive
    /\ subscribers' = SelectSeq(subscribers, LAMBDA fn : fn # subscriber)
    /\ effects' = << >>
    /\ lastOp' = "unsubscribe"
    /\ threw' = FALSE
    /\ UNCHANGED <<config, state, socket, inflight, calls, frames, now, alive, hist>>

unsubscribeAll ==
    /\ alive
    /\ subscribers' = << >>
    /\ effects' = << >>
    /\ lastOp' = "unsubscribeAll"
    /\ threw' = FALSE
    /\ UNCHANGED <<config, state, socket, inflight, calls, frames, now, alive, hist>>

\* reset that empties the transcript as well
resetClearsTranscript ==
    /\ alive
    /\ state' = setState(state, [conversationId |-> Undefined, responses |-> << >>])
    /\ effects' = Notifications(subscribers, state')
    /\ lastOp' = "reset"
    /\ threw' = FALSE
    /\ hist' = [hist EXCEPT !.afterReset = TRUE, !.lastReplyId = Undefined]
    /\ UNCHANGED <<config, subscribers, socket, inflight, calls, frames, now, alive>>

reset ==
    /\ alive
    /\ state' = setState(state, [conversationId |-> Undefined])
    /\ effects' = Notifications(subscribers, state')
    /\ lastOp' = "reset"
    /\ threw' = FALSE
    /\ hist' = [hist EXCEPT !.afterReset = TRUE, !.lastReplyId = Undefined]
    /\ UNCHANGED <<config, subscribers, socket, inflight, calls, frames, now, alive>>

\* ---- completions of the unary transport: fetch(...).then(res => res.json())
\* the call resolves with a parsed body: .then(messageResposeHandler), and
\* .catch(failureHandler) when the handler throws
FetchResolve(id, body) ==
    /\ ~isUsingWebSockets(config)
    /\ id \in inflight
    /\ inflight' = inflight \ {id}
    /\ state' = IF HandlerThrows(body) THEN failureHandler(config, state, now)
                ELSE messageResposeHandler(state, body, now)
    /\ effects' = IF Applies(body) THEN Notifications(subscribers, state') ELSE << >>
    /\ hist' = [hist EXCEPT !.replies = @ + (IF body = Null THEN 0 ELSE 1),
                             !.lastReplyId = IF Applies(body) /\ ~HandlerThrows(body)
                                             THEN Get(body, "conversationId") ELSE @]
    /\ lastOp' = "resolve"
    /\ threw' = FALSE
    /\ UNCHANGED <<config, subscribers, socket, calls, frames, now, alive>>

\* the call rejects (network failure, or a body that is not JSON): .catch(failureHandler)
FetchReject(id) ==
    /\ ~isUsingWebSockets(config)
    /\ id \in inflight
    /\ inflight' = inflight \ {id}
    /\ state' = failureHandler(config, state, now)
    /\ effects' = Notifications(subscribers, state')
    /\ hist' = [hist EXCEPT !.replies = @ + 1]
    /\ lastOp' = "reject"
    /\ threw' = FALSE
    /\ UNCHANGED <<config, subscribers, socket, calls, frames, now, alive>>

\* ---- the streaming transport
\* the pending sentinel taken for a call that failed
PendingResolveFails(id) ==
    /\ isUsingWebSockets(config)
    /\ id \in inflight
    /\ inflight' = inflight \ {id}
    /\ state' = failureHandler(config, state, now)
    /\ effects' = Notifications(subscribers, state')
    /\ lastOp' = "resolve"
    /\ threw' = FALSE
    /\ UNCHANGED <<config, subscribers, socket, calls, frames, now, alive, hist>>

\* Promise.resolve({ isPending: true }).then(messageResposeHandler)
PendingResolve(id) ==
    /\ isUsingWebSockets(config)
    /\ id \in inflight
    /\ inflight' = inflight \ {id}
    /\ state' = messageResposeHandler(state, Pending, now)
    /\ effects' = IF Applies(Pending) THEN Notifications(subscribers, state') ELSE << >>
    /\ lastOp' = "resolve"
    /\ threw' = FALSE
    /\ UNCHANGED <<config, subscribers, socket, calls, frames, now, alive, hist>>

\* a promise that is already resolved runs its callbacks before the next event
\* is taken from the queue, so no socket event finds one of them unsettled
MicrotasksDone == ~isUsingWebSockets(config) \/ inflight = {}

SocketOpen ==
    /\ MicrotasksDone
    /\ socket = "connecting"
    /\ socket' = "open"
    /\ lastOp' = "onopen"
    /\ threw' = FALSE
    /\ effects' = << >>
    /\ UNCHANGED <<config, state, subscribers, inflight, calls, frames, now, alive, hist>>

SocketClose ==
    /\ MicrotasksDone
    /\ socket \in {"connecting", "open"}
    /\ socket' = "closed"
    /\ lastOp' = "onclose"
    /\ threw' = FALSE
    /\ effects' = << >>
    /\ UNCHANGED <<config, state, subscribers, inflight, calls, frames, now, alive, hist>>

\* typeof e.data === "string"
IsText(frame) == Has(frame, "text")

\* JSON.parse(e.data) throws a SyntaxError on text that is not JSON
ParseThrows(frame) == ~Has(frame, "json")

\* a frame that carries a bot reply: text, JSON, an object with a messages list
IsReply(frame) == IsText(frame) /\ ~ParseThrows(frame) /\ Has(frame.json, "messages")

\* a frame that cannot be handled answered with a failure response
SocketMessageReportsMalformed(frame) ==
    /\ MicrotasksDone
    /\ socket = "open"
    /\ frames < MaxFrames
    /\ frames' = frames + 1
    /\ state' = IF IsReply(frame) THEN messageResposeHandler(state, frame.json, now)
                ELSE failureHandler(config, state, now)
    /\ effects' = Notifications(subscribers, state')
    /\ threw' = FALSE
    /\ hist' = [hist EXCEPT !.replies = @ + (IF IsReply(frame) THEN 1 ELSE 0),
                             !.lastReplyId = IF IsReply(frame)
                                             THEN Get(frame.json, "conversationId") ELSE @]
    /\ lastOp' = "onmessage"
    /\ UNCHANGED <<config, subscribers, socket, inflight, calls, now, alive>>

\* socket.onmessage
SocketMessage(frame) ==
    /\ MicrotasksDone
    /\ socket = "open"
    /\ frames < MaxFrames
    /\ frames' = frames + 1
    /\ LET handled == IsText(frame) /\ ~ParseThrows(frame) /\ ~HandlerThrows(frame.json)
       IN /\ state' = IF handled THEN messageResposeHandler(state, frame.json, now) ELSE state
          /\ effects' = IF handled /\ Applies(frame.json)
                         THEN Notifications(subscribers, state') ELSE << >>
          /\ threw' = (IsText(frame) /\ ~handled)
    /\ hist' = [hist EXCEPT !.replies = @ + (IF IsReply(frame) THEN 1 ELSE 0),
                             !.lastReplyId = IF IsReply(frame)
                                             THEN Get(frame.json, "conversationId") ELSE @]
    /\ lastOp' = "onmessage"
    /\ UNCHANGED <<config, subscribers, socket, inflight, calls, now, alive>>

Next ==
    \/ \E text \in Texts : sendText(text)
    \/ \E structured \in StructuredRequests : sendStructured(structured)
    \/ \E slots \in SlotLists : sendSlots(slots)
    \/ \E intentId \in IntentIds : sendIntent(intentId)
    \/ \E choiceId \in ChoiceIds : sendChoice(choiceId)
    \/ \E subscriber \in Subscribers : subscribe(subscriber)
    \/ \E subscriber \in Subscribers : unsubscribe(subscriber)
    \/ unsubscribeAll
    \/ reset
    \/ \E id \in inflight, body \in Bodies : FetchResolve(id, body)
    \/ \E id \in inflight : FetchReject(id)
    \/ \E id \in inflight : PendingResolve(id)
    \/ SocketOpen
    \/ SocketClose
    \/ \E frame \in Frames : SocketMessage(frame)

Spec == Init /\ [][Next]_vars

\* ---- choices: the manager without the welcome intent, with every choice the
\* bot offers and one it does not, and with the clock advancing between the steps
OfferedAndUnknown == {"a", "b", "z"}

Tick ==
    /\ now < MaxTime
    /\ now' = now + 1
    /\ lastOp' = "tick"
    /\ threw' = FALSE
    /\ effects' = << >>
    /\ UNCHANGED <<config, state, subscribers, socket, inflight, calls, frames, alive, hist>>

InitChoice == Init /\ ~config.triggerWelcomeIntent

NextChoice ==
    \/ \E choiceId \in OfferedAndUnknown : sendChoice(choiceId)
    \/ \E intentId \in IntentIds : sendIntent(intentId)
    \/ \E id \in inflight, body \in Payloads : FetchResolve(id, body)
    \/ \E id \in inflight : FetchReject(id)
    \/ \E id \in inflight : PendingResolve(id)
    \/ SocketOpen
    \/ \E frame \in Frames : SocketMessage(frame)
    \/ Tick

SpecChoice == InitChoice /\ [][NextChoice]_vars

\* ---- subscribers: the manager with two subscribers that can be told apart
TwoSubscribers == {"f", "g"}

NextSubscribers ==
    \/ \E subscriber \in TwoSubscribers : subscribe(subscriber)
    \/ \E subscriber \in TwoSubscribers : unsubscribe(subscriber)
    \/ unsubscribeAll
    \/ reset
    \/ \E text \in Texts : sendText(text)
    \/ \E intentId \in IntentIds : sendIntent(intentId)
    \/ \E id \in inflight, body \in Payloads : FetchResolve(id, body)
    \/ \E id \in inflight : FetchReject(id)
    \/ \E id \in inflight : PendingResolve(id)
    \/ SocketOpen
    \/ \E frame \in Frames : SocketMessage(frame)

SpecSubscribers == Init /\ [][NextSubscribers]_vars

\* ---- a subscriber that writes to the value it is called with.
\* fromInternal returns internalState.responses itself, not a copy, and setState
\* and subscribe pass that array to the subscriber: a registered subscriber has
\* been called with the array the record holds now (subscribe calls it with the
\* current one, and every setState that replaces the array calls it with the
\* new one), so what it does to the array is done to state.responses.
\* snapshot.pop() in a subscriber, or later on the array it kept
SnapshotPop(subscriber) ==
    /\ alive
    /\ \E i \in DOMAIN subscribers : subscribers[i] = subscriber
    /\ state.responses # << >>
    /\ state' = [state EXCEPT !.responses = SubSeq(@, 1, Len(@) - 1)]
    /\ lastOp' = "mutate"
    /\ threw' = FALSE
    /\ effects' = << >>
    /\ UNCHANGED <<config, subscribers, socket, inflight, calls, frames, now, alive, hist>>

NextMutatingSubscriber ==
    \/ \E subscriber \in Subscribers : subscribe(subscriber)
    \/ \E subscriber \in Subscribers : SnapshotPop(subscriber)
    \/ reset
    \/ \E text \in Texts : sendText(text)
    \/ \E id \in inflight, body \in Payloads : FetchResolve(id, body)
    \/ \E id \in inflight : FetchReject(id)
    \/ \E id \in inflight : PendingResolve(id)
    \/ SocketOpen
    \/ \E frame \in Frames : SocketMessage(frame)

SpecMutatingSubscriber == Init /\ [][NextMutatingSubscriber]_vars

\* ---- a subscriber that throws when it is called, on the unary transport.
\* subscribers.forEach stops at the first subscriber that throws, and the
\* exception leaves setState after the record was replaced
Throwing == "boom"

FirstThrow(subs) ==
    IF \E i \in DOMAIN subs : subs[i] = Throwing
    THEN CHOOSE i \in DOMAIN subs :
             subs[i] = Throwing /\ \A j \in 1..(i - 1) : subs[j] # Throwing
    ELSE 0

Throws(subs) == FirstThrow(subs) # 0

\* the calls forEach makes before the exception ends it
Called(subs, st) ==
    IF Throws(subs) THEN SubSeq(Notifications(subs, st), 1, FirstThrow(subs))
    ELSE Notifications(subs, st)

subscribeThrowing(subscriber) ==
    /\ alive
    /\ Len(subscribers) < MaxSubs
    /\ subscribers' = Append(subscribers, subscriber)
    /\ effects' = << [kind |-> "notify", fn |-> subscriber, snapshot |-> fromInternal(state)] >>
    /\ lastOp' = "subscribe"
    /\ threw' = (subscriber = Throwing)
    /\ UNCHANGED <<config, state, socket, inflight, calls, frames, now, alive, hist>>

\* .then(messageResposeHandler).catch(failureHandler): an exception that leaves
\* messageResposeHandler, from response.messages.map or from a subscriber that
\* setState called, rejects the promise .catch is attached to
FetchResolveThrowing(id, body) ==
    /\ ~isUsingWebSockets(config)
    /\ id \in inflight
    /\ inflight' = inflight \ {id}
    /\ LET applied == Applies(body) /\ ~HandlerThrows(body)
           handled == IF applied THEN messageResposeHandler(state, body, now) ELSE state
           caught == HandlerThrows(body) \/ (applied /\ Throws(subscribers))
       IN /\ state' = IF caught THEN failureHandler(config, handled, now) ELSE handled
          /\ effects' = (IF applied THEN Called(subscribers, handled) ELSE << >>)
                         \o (IF caught THEN Called(subscribers, state') ELSE << >>)
          /\ threw' = (caught /\ Throws(subscribers))
    /\ hist' = [hist EXCEPT !.replies = @ + (IF body = Null THEN 0 ELSE 1),
                             !.lastReplyId = IF Applies(body) /\ ~HandlerThrows(body)
                                             THEN Get(body, "conversationId") ELSE @]
    /\ lastOp' = "resolve"
    /\ UNCHANGED <<config, subscribers, socket, calls, frames, now, alive>>

FetchRejectThrowing(id) ==
    /\ ~isUsingWebSockets(config)
    /\ id \in inflight
    /\ inflight' = inflight \ {id}
    /\ state' = failureHandler(config, state, now)
    /\ effects' = Called(subscribers, state')
    /\ threw' = Throws(subscribers)
    /\ hist' = [hist EXCEPT !.replies = @ + 1]
    /\ lastOp' = "reject"
    /\ UNCHANGED <<config, subscribers, socket, calls, frames, now, alive>>

InitThrowingSubscriber == Init /\ ~isUsingWebSockets(config)

NextThrowingSubscriber ==
    \/ \E subscriber \in Subscribers \cup {Throwing} : subscribeThrowing(subscriber)
    \/ \E intentId \in IntentIds : sendIntent(intentId)
    \/ \E id \in inflight, body \in Bodies : FetchResolveThrowing(id, body)
    \/ \E id \in inflight : FetchRejectThrowing(id)

SpecThrowingSubscriber == InitThrowingSubscriber /\ [][NextThrowingSubscriber]_vars

\* ---- a subscriber that calls unsubscribe(Victim) whenever it is called, on
\* the unary transport. unsubscribe assigns a new array to the variable
\* subscribers; the forEach of a round that is in progress goes on over the
\* array the variable held when the round began
Reentrant == "u"

Victim == "g"

\* the calls of one round over the array subs, from position i on: each
\* subscriber is called, and the call of Reentrant makes its unsubscribe call
\* and returns before the next subscriber is called
RECURSIVE RoundFrom(_, _, _)
RoundFrom(subs, st, i) ==
    IF i > Len(subs) THEN << >>
    ELSE << [kind |-> "notify", fn |-> subs[i], snapshot |-> fromInternal(st)] >>
         \o (IF subs[i] = Reentrant THEN << [kind |-> "unsubscribe", fn |-> Victim] >>
             ELSE << >>)
         \o RoundFrom(subs, st, i + 1)

\* the variable subscribers after a round over subs
AfterRound(subs) ==
    IF \E i \in DOMAIN subs : subs[i] = Reentrant
    THEN SelectSeq(subs, LAMBDA fn : fn # Victim)
    ELSE subs

subscribeReentrant(subscriber) ==
    /\ alive
    /\ Len(subscribers) < MaxSubs
    /\ subscribers' = (IF subscriber = Reentrant
                       THEN SelectSeq(Append(subscribers, subscriber), LAMBDA fn : fn # Victim)
                       ELSE Append(subscribers, subscriber))
    /\ effects' = RoundFrom(<<subscriber>>, state, 1)
    /\ lastOp' = "subscribe"
    /\ threw' = FALSE
    /\ UNCHANGED <<config, state, socket, inflight, calls, frames, now, alive, hist>>

resetReentrant ==
    /\ alive
    /\ state' = setState(state, [conversationId |-> Undefined])
    /\ effects' = RoundFrom(subscribers, state', 1)
    /\ subscribers' = AfterRound(subscribers)
    /\ lastOp' = "reset"
    /\ threw' = FALSE
    /\ hist' = [hist EXCEPT !.afterReset = TRUE, !.lastReplyId = Undefined]
    /\ UNCHANGED <<config, socket, inflight, calls, frames, now, alive>>

sendTextReentrant(text) ==
    /\ CanSend
    /\ LET st == setState(state, [responses |-> Append(state.responses, UserText(text, now))])
       IN Dispatch(st, [unstructured |-> [text |-> text]], RoundFrom(subscribers, st, 1))
    /\ subscribers' = AfterRound(subscribers)
    /\ hist' = [hist EXCEPT !.sendText = @ + 1, !.afterReset = FALSE]
    /\ lastOp' = "sendText"
    /\ UNCHANGED <<config, socket, frames, now, alive>>

FetchResolveReentrant(id, body) ==
    /\ ~isUsingWebSockets(config)
    /\ id \in inflight
    /\ inflight' = inflight \ {id}
    /\ state' = messageResposeHandler(state, body, now)
    /\ effects' = RoundFrom(subscribers, state', 1)
    /\ subscribers' = AfterRound(subscribers)
    /\ hist' = [hist EXCEPT !.replies = @ + 1,
                             !.lastReplyId = Get(body, "conversationId")]
    /\ lastOp' = "resolve"
    /\ threw' = FALSE
    /\ UNCHANGED <<config, socket, calls, frames, now, alive>>

FetchRejectReentrant(id) ==
    /\ ~isUsingWebSockets(config)
    /\ id \in inflight
    /\ inflight' = inflight \ {id}
    /\ state' = failureHandler(config, state, now)
    /\ effects' = RoundFrom(subscribers, state', 1)
    /\ subscribers' = AfterRound(subscribers)
    /\ hist' = [hist EXCEPT !.replies = @ + 1]
    /\ lastOp' = "reject"
    /\ threw' = FALSE
    /\ UNCHANGED <<config, socket, calls, frames, now, alive>>

InitReentrantSubscriber == Init /\ ~isUsingWebSockets(config)

NextReentrantSubscriber ==
    \/ \E subscriber \in {Victim, Reentrant} : subscribeReentrant(subscriber)
    \/ \E subscriber \in {Victim, Reentrant} : unsubscribe(subscriber)
    \/ unsubscribeAll
    \/ resetReentrant
    \/ \E text \in Texts : sendTextReentrant(text)
    \/ \E id \in inflight, body \in Payloads : FetchResolveReentrant(id, body)
    \/ \E id \in inflight : FetchRejectReentrant(id)

SpecReentrantSubscriber == InitReentrantSubscriber /\ [][NextReentrantSubscriber]_vars

\* ------------------------------------------------------------ properties
Last(seq) == seq[Len(seq)]

SendOps == {"sendText", "sendChoice", "sendSlots", "sendIntent", "sendStructured"}

PublicOps == SendOps \cup {"subscribe", "unsubscribe", "unsubscribeAll", "reset"}

GreetingTurns ==
    IF Has(config, "greetingMessages") /\ config.greetingMessages # << >> THEN 1 ELSE 0

\* a synthesized failure response: a bot response whose payload has no conversationId key
IsFailure(response) == response.type = "bot" /\ ~Has(response.payload, "conversationId")

\* a reply of the bot service as messageResposeHandler appends it
IsBotReply(response) == response.type = "bot" /\ Has(response.payload, "metadata")

\* C1: the length of the published State is the number of greeting turns, plus
\* one per sendText call, one per sendChoice call and one per bot reply that
\* resolved or failed; sendSlots, sendIntent and sendStructured (which hist does
\* not count) add no entry.
C1_StateLength ==
    Len(fromInternal(state)) = GreetingTurns + hist.sendText + hist.sendChoice + hist.replies

\* a greeting, a sendText, a sendChoice, a reply that resolved and one that failed
C1_Witness ==
    /\ GreetingTurns = 1 /\ hist.sendText = 1 /\ hist.sendChoice = 1 /\ hist.replies = 2
    /\ \E i \in DOMAIN state.responses : IsFailure(state.responses[i])
    /\ \E i \in DOMAIN state.responses : IsBotReply(state.responses[i])

C2_TurnPublished ==
    lastOp = "sendText" =>
        LET n == Len(subscribers)
            turn == Last(state.responses)
        IN /\ state.responses # << >>
           /\ turn.type = "user"
           /\ turn.payload.type = "text"
           /\ Len(effects) = n + 1
           /\ \A i \in 1..n :
                 /\ effects[i].kind = "notify"
                 /\ effects[i].fn = subscribers[i]
                 /\ effects[i].snapshot = state.responses
           /\ effects[n + 1].kind = "send"
           /\ effects[n + 1].body.request = [unstructured |-> [text |-> turn.payload.text]]
           /\ (~threw => calls \in inflight)

C2_TurnStays ==
    \A i \in DOMAIN state.responses :
        state.responses[i].type = "user" =>
            /\ i \in DOMAIN state'.responses
            /\ state'.responses[i] = state.responses[i]

\* C2: sendText(text) appends UserResponse {type: "text", text} at the end of
\* the timeline and hands the new snapshot to every subscriber before it
\* dispatches the request for that text, whose promise is still unsettled when
\* sendText returns; no later step removes or changes a user turn, so the turn
\* stays however the request ends, and the reply, appended when the request
\* settles, comes after it.
C2_UserTurnBeforeDispatch == []C2_TurnPublished /\ [][C2_TurnStays]_vars

\* a subscriber saw the turn of a sendText whose request then failed
C2_Witness ==
    /\ lastOp = "reject"
    /\ subscribers # << >>
    /\ Len(state.responses) >= 2
    /\ state.responses[Len(state.responses) - 1].type = "user"
    /\ state.responses[Len(state.responses) - 1].payload.type = "text"
    /\ IsFailure(Last(state.responses))

\* the BotMessages of a timeline, as <<response index, message index>>
BotMessagesOf(responses) ==
    UNION { { <<i, j>> : j \in DOMAIN responses[i].payload.messages } :
            i \in { k \in DOMAIN responses : responses[k].type = "bot" } }

MessageAt(responses, at) == responses[at[1]].payload.messages[at[2]]

C3_Step ==
    lastOp' = "sendChoice" =>
        LET old == state.responses
            new == state'.responses
            choiceId == Last(effects').body.request.structured.choiceId
        IN /\ Len(new) = Len(old) + 1
           /\ Last(new).type = "user"
           /\ Last(new).payload = [type |-> "choice", choiceId |-> choiceId]
           /\ BotMessagesOf(new) = BotMessagesOf(old)
           /\ \A at \in BotMessagesOf(old) :
                 Get(MessageAt(new, at), "selectedChoiceId") =
                    IF \E k \in DOMAIN MessageAt(old, at).choices :
                          MessageAt(old, at).choices[k].choiceId = choiceId
                    THEN choiceId
                    ELSE Get(MessageAt(old, at), "selectedChoiceId")

\* C3: sendChoice(choiceId) sets selectedChoiceId to choiceId on every BotMessage
\* of the timeline whose choices contain choiceId, leaves the selectedChoiceId of
\* every other BotMessage as it was, and appends one UserResponse
\* {type: "choice", choiceId}, the choiceId being the one it dispatches.
C3_SendChoiceStamps == [][C3_Step]_vars

\* sendChoice("z"), a choice no message offers, has left the selection "a" in place
C3_Witness ==
    /\ lastOp = "sendChoice"
    /\ Last(state.responses).payload.choiceId = "z"
    /\ \E at \in BotMessagesOf(state.responses) :
          Get(MessageAt(state.responses, at), "selectedChoiceId") = "a"

C4_Step ==
    (/\ lastOp = "sendChoice" /\ lastOp' = "sendChoice"
     /\ Last(state'.responses).payload.choiceId = Last(state.responses).payload.choiceId)
    =>
        /\ SubSeq(state'.responses, 1, Len(state.responses)) = state.responses
        /\ Len(state'.responses) = Len(state.responses) + 1
        /\ Last(state'.responses).payload = Last(state.responses).payload

\* the selectedChoiceId of every BotMessage of a timeline
Stamps(responses) ==
    [at \in BotMessagesOf(responses) |-> Get(MessageAt(responses, at), "selectedChoiceId")]

\* on the timeline as it is now, at whatever times the two calls are made
C4_Rewrite ==
    \A choiceId \in OfferedAndUnknown, first \in now..MaxTime :
        \A second \in first..MaxTime :
            LET once == newResponses(state.responses, choiceId, first)
                twice == newResponses(once, choiceId, second)
            IN /\ Stamps(twice) = Stamps(once)
               /\ twice = Append(once, UserChoice(choiceId, second))

\* C4: sendChoice(c) made twice in a row leaves every entry the first call
\* left, the selectedChoiceId of every BotMessage included, and adds only the
\* second user turn: on every timeline and for every c, whether the calls are
\* the steps of a run (C4_Step) or made on the timeline of any state (C4_Rewrite).
C4_SendChoiceIdempotent == []C4_Rewrite /\ [][C4_Step]_vars

\* sendChoice("a") twice in a row, on a timeline where a message offers "a"
C4_Witness ==
    /\ lastOp = "sendChoice"
    /\ Len(state.responses) >= 3
    /\ Last(state.responses).payload.choiceId = "a"
    /\ state.responses[Len(state.responses) - 1].type = "user"
    /\ state.responses[Len(state.responses) - 1].payload = Last(state.responses).payload
    /\ \E at \in BotMessagesOf(state.responses) :
          Get(MessageAt(state.responses, at), "selectedChoiceId") = "a"

C5_ContextOnFirstCall ==
    /\ state.contextSent = (calls > 0)
    /\ \A i \in DOMAIN effects :
          effects[i].kind = "send" =>
            /\ Has(effects[i].body, "context") = (Has(config, "context") /\ calls = 1)
            /\ Has(effects[i].body, "context") => effects[i].body.context = config.context

C5_FlagStays == state.contextSent => state'.contextSent

\* C5: with a context configured, the body handed to the transport holds it on
\* the first call of sendToBot (the welcome intent, or else the first send*) and
\* on no later call; contextSent is true from that call on, failed or not, and
\* never goes back to false.
C5_ContextOnce == []C5_ContextOnFirstCall /\ [][C5_FlagStays]_vars

\* the first send carried the context and failed; the second send goes without it
C5_Witness ==
    /\ Has(config, "context")
    /\ calls = 2
    /\ lastOp \in SendOps
    /\ ~Has(Last(effects).body, "context")
    /\ \E i \in DOMAIN state.responses : IsFailure(state.responses[i])

C6_Step ==
    lastOp' = "reset" =>
        /\ currentConversationId' = Undefined
        /\ state'.responses = state.responses
        /\ state'.userId = state.userId
        /\ state'.contextSent = state.contextSent

\* C6: reset() leaves currentConversationId() undefined and the timeline, userId
\* and contextSent as they were.
C6_ResetFrame == [][C6_Step]_vars

\* reset() after a reply that had set the conversationId, with a userId and
\* the context sent
C6_Witness ==
    /\ lastOp = "reset"
    /\ currentConversationId = Undefined
    /\ state.userId = "u1"
    /\ state.contextSent
    /\ IsBotReply(Last(state.responses))
    /\ Last(state.responses).payload.conversationId = "c1"

FailureTexts ==
    IF Has(config, "failureMessages") THEN config.failureMessages
    ELSE << "We encountered an issue while contacting the server. Please try again in a few moments." >>

C7_Step ==
    lastOp' = "reject" =>
        LET new == state'.responses
            messages == Last(new).payload.messages
        IN /\ Len(new) = Len(state.responses) + 1
           /\ SubSeq(new, 1, Len(state.responses)) = state.responses
           /\ Last(new).type = "bot"
           /\ ~Has(Last(new).payload, "conversationId")
           /\ Len(messages) = Len(FailureTexts)
           /\ \A i \in DOMAIN messages :
                 /\ messages[i].text = FailureTexts[i]
                 /\ messages[i].choices = << >>
                 /\ ~Has(messages[i], "messageId")
           /\ state'.conversationId = state.conversationId

\* C7: a call that rejects appends exactly one BotResponse: its messages are the
\* configured failureMessages in order, or the one built-in message when none
\* are configured, each with empty choices and no messageId; its payload has no
\* conversationId; the entries before it and the conversationId stay.
C7_FailureResponse == [][C7_Step]_vars

\* a call rejected in a conversation that has its conversationId, with two
\* configured failure messages
C7_Witness ==
    /\ lastOp = "reject"
    /\ state.conversationId = "c1"
    /\ Has(config, "failureMessages")
    /\ Len(Last(state.responses).payload.messages) = 2

C8_OnlyResetChanges ==
    /\ state.conversationId = Undefined => (state'.conversationId # Undefined =>
            lastOp' \in {"resolve", "onmessage"} /\ IsBotReply(Last(state'.responses)))
    /\ state.conversationId # Undefined => (state'.conversationId # state.conversationId =>
            lastOp' = "reset")

\* C8: conversationId is undefined until the first bot reply is applied, and
\* once it holds a value only reset() changes it.
C8_Original == [][C8_OnlyResetChanges]_vars

C8_ResetOrReplyChanges ==
    state'.conversationId # state.conversationId =>
        \/ lastOp' = "reset" /\ state'.conversationId = Undefined
        \/ /\ lastOp' \in {"resolve", "onmessage"}
           /\ Len(state'.responses) = Len(state.responses) + 1
           /\ IsBotReply(Last(state'.responses))
           /\ state'.conversationId = Last(state'.responses).payload.conversationId

\* C8 as amended: conversationId is undefined until the first bot reply is
\* applied; after that it changes only through reset(), which clears it, and
\* through a bot reply, which puts the conversationId of that reply in its place;
\* no failure, send, pending sentinel or dropped frame changes it.
C8_Amended == (state.conversationId = Undefined) /\ [][C8_ResetOrReplyChanges]_vars

\* a second reply has put "c2" where the first reply had put "c1"
C8_Witness ==
    /\ lastOp = "resolve"
    /\ state.conversationId = "c2"
    /\ Len(state.responses) >= 2
    /\ IsBotReply(state.responses[Len(state.responses) - 1])
    /\ state.responses[Len(state.responses) - 1].payload.conversationId = "c1"

\* C9: no public operation, the welcome intent at construction included, throws
\* to its caller.
C9_NoThrow == lastOp \in PublicOps \cup {"createConversation"} => ~threw

C10_SubscribeCalls ==
    lastOp = "subscribe" =>
        /\ subscribers # << >>
        /\ effects = << [kind |-> "notify", fn |-> Last(subscribers),
                         snapshot |-> fromInternal(state)] >>

C10_Delivers ==
    (state'.responses # state.responses \/ state'.conversationId # state.conversationId) =>
        \A i \in DOMAIN subscribers :
            \E k \in DOMAIN effects' :
                effects'[k] = [kind |-> "notify", fn |-> subscribers[i],
                               snapshot |-> fromInternal(state')]

\* C10: subscribe(fn) registers fn and calls it exactly once, with the snapshot
\* of that moment; from then on every step that changes the timeline or the
\* conversationId calls every registered subscriber with the new snapshot.
C10_Subscribe == []C10_SubscribeCalls /\ [][C10_Delivers]_vars

\* a registered subscriber is handed the timeline a bot reply has just extended
C10_Witness ==
    /\ lastOp = "resolve"
    /\ subscribers # << >>
    /\ effects # << >>
    /\ effects[1].fn = subscribers[1]
    /\ effects[1].snapshot = state.responses
    /\ IsBotReply(Last(state.responses))

\* the subscriber calls among the calls a step made, in the order it made them
NotifyCalls(calls_made) == SelectSeq(calls_made, LAMBDA e : e.kind = "notify")

\* the subscriber calls are one per registration, in registration order, each
\* with the timeline of st
CalledInOrder(calls_made, subs, st) ==
    /\ Len(NotifyCalls(calls_made)) = Len(subs)
    /\ \A i \in DOMAIN subs :
          /\ NotifyCalls(calls_made)[i].fn = subs[i]
          /\ NotifyCalls(calls_made)[i].snapshot = st.responses

C11_SetStateNotifies ==
    (state'.responses # state.responses \/ state'.conversationId # state.conversationId)
        => CalledInOrder(effects', subscribers, state')

C11_ContextFlagSilent ==
    (/\ state' # state
     /\ state'.responses = state.responses
     /\ state'.conversationId = state.conversationId)
        => /\ state' = [state EXCEPT !.contextSent = TRUE]
           /\ lastOp' \in SendOps
           /\ NotifyCalls(effects') = << >>

C12_OneRegistration ==
    \A i, j \in DOMAIN subscribers : subscribers[i] = subscribers[j] => i = j

C12_SubscribeAppends ==
    lastOp' = "subscribe" =>
        \E fn \in TwoSubscribers :
            /\ subscribers' = Append(subscribers, fn)
            /\ NotifyCalls(effects') = << [kind |-> "notify", fn |-> fn,
                                           snapshot |-> state.responses] >>

C12_RemovesFirst ==
    lastOp' = "unsubscribe" =>
        \E fn \in TwoSubscribers : subscribers' = RemoveFirst(subscribers, fn)

\* C12 as stated: a function has at most one registration at any time;
\* unsubscribe(fn) removes the first registration of fn and leaves the others in
\* their order; subscribe(fn) registers fn at the end of the order.
C12_Original ==
    []C12_OneRegistration /\ [][C12_SubscribeAppends /\ C12_RemovesFirst]_vars

C12_RemovesAll ==
    lastOp' = "unsubscribe" =>
        \E fn \in TwoSubscribers :
            /\ \A i \in DOMAIN subscribers' : subscribers'[i] # fn
            /\ subscribers' = SelectSeq(subscribers, LAMBDA other : other # fn)

\* C12 as amended: subscribe(fn) adds a registration at the end of the order
\* every time it is called, also when fn is registered already; unsubscribe(fn)
\* removes every registration of fn and leaves the other registrations in
\* their order, so fn subscribed again afterwards is the last one.
C12_Amended == [][C12_SubscribeAppends /\ C12_RemovesAll]_vars

\* subscribe(f) has been called while f was registered, and called f once
C12_Witness ==
    /\ lastOp = "subscribe"
    /\ subscribers = <<"f", "f">>
    /\ Len(NotifyCalls(effects)) = 1

BotEntries(responses) == {i \in DOMAIN responses : responses[i].type = "bot"}

\* the result of a send is the pending sentinel, which changes nothing
C13_SentinelDiscarded ==
    lastOp' \in {"resolve", "reject"} =>
        /\ lastOp' = "resolve"
        /\ inflight' # inflight
        /\ state' = state
        /\ effects' = << >>

\* a bot entry comes from an inbound frame that carries a reply, and from nothing else
C13_OnlyFrames ==
    BotEntries(state'.responses) # BotEntries(state.responses) =>
        /\ lastOp' = "onmessage"
        /\ hist'.replies = hist.replies + 1

\* every inbound frame that carries a reply appends one BotResponse, as a reply
\* of the unary transport does, and every subscriber is called with the result
C13_FrameAppendsOne ==
    (lastOp' = "onmessage" /\ hist'.replies = hist.replies + 1) =>
        /\ Len(state'.responses) = Len(state.responses) + 1
        /\ SubSeq(state'.responses, 1, Len(state.responses)) = state.responses
        /\ IsBotReply(Last(state'.responses))
        /\ Last(state'.responses).receivedAt = now
        /\ state'.conversationId = Last(state'.responses).payload.conversationId
        /\ CalledInOrder(effects', subscribers, state')

\* C13: on the streaming transport the result of every send is the pending
\* sentinel, which adds no timeline entry and calls no subscriber; bot entries
\* come only from inbound text frames that carry a reply, each of which
\* appends exactly one BotResponse of the form the unary transport appends.
C13_Streaming ==
    [][isUsingWebSockets(config) =>
          C13_SentinelDiscarded /\ C13_OnlyFrames /\ C13_FrameAppendsOne]_vars

\* on the streaming transport a reply has arrived as a frame and was appended;
\* then a send was written to the socket and its sentinel has been discarded
C13_Witness ==
    /\ isUsingWebSockets(config)
    /\ lastOp = "resolve"
    /\ inflight = {}
    /\ hist.replies = 1
    /\ Cardinality(BotEntries(state.responses)) = 1 + GreetingTurns
    /\ \E i \in DOMAIN state.responses : IsBotReply(state.responses[i])
    /\ state.conversationId = "c1"

\* the calls a step made on the transport
SendCalls(calls_made) == SelectSeq(calls_made, LAMBDA e : e.kind = "send")

\* C14: the first request dispatched after reset() carries no conversationId,
\* whatever was in flight when reset() was called and whenever its reply arrives.
C14_FreshConversation ==
    [][(hist.afterReset /\ calls' = calls + 1) =>
          \A i \in DOMAIN SendCalls(effects') :
              ~Has(SendCalls(effects')[i].body, "conversationId")]_vars

\* C15: nothing a subscriber does to the State it was called with changes the
\* manager's timeline, and so nothing it does changes what subscribe or a later
\* notification hands to a subscriber.
C15_SnapshotImmutable == [][lastOp' = "mutate" => state'.responses = state.responses]_vars

Without(obj, key) == [k \in DOMAIN obj \ {key} |-> obj[k]]

\* the same entry, but for the selectedChoiceId of its messages
SameButSelection(old, new) ==
    IF old.type = "bot"
    THEN /\ Without(new, "payload") = Without(old, "payload")
         /\ Without(new.payload, "messages") = Without(old.payload, "messages")
         /\ Len(new.payload.messages) = Len(old.payload.messages)
         /\ \A m \in DOMAIN old.payload.messages :
               Without(new.payload.messages[m], "selectedChoiceId")
                   = Without(old.payload.messages[m], "selectedChoiceId")
    ELSE new = old

C16_Step ==
    /\ Len(state'.responses) >= Len(state.responses)
    /\ \A i \in DOMAIN state.responses :
          IF lastOp' = "sendChoice"
          THEN SameButSelection(state.responses[i], state'.responses[i])
          ELSE state'.responses[i] = state.responses[i]

\* C16: across every step the timeline does not get shorter and every entry it
\* had stays at its place unchanged, except that sendChoice may change the
\* selectedChoiceId of the messages of bot entries, and nothing else of them.
C16_AppendOnly == [][C16_Step]_vars

\* a sendChoice has stamped a message of an earlier bot entry
C16_Witness ==
    /\ lastOp = "sendChoice"
    /\ Len(state.responses) >= 2
    /\ \E at \in BotMessagesOf(state.responses) :
          /\ at[1] < Len(state.responses)
          /\ Get(MessageAt(state.responses, at), "selectedChoiceId") = "a"
          /\ Get(MessageAt(state.responses, at), "messageId") = "m1"

\* a call settles with an entry: the entry is put after everything the
\* timeline holds at that moment, and only that call leaves the calls in flight
C17_Step ==
    (lastOp' \in {"resolve", "reject"} /\ hist'.replies = hist.replies + 1) =>
        /\ Len(state'.responses) = Len(state.responses) + 1
        /\ SubSeq(state'.responses, 1, Len(state.responses)) = state.responses
        /\ Last(state'.responses).type = "bot"
        /\ Last(state'.responses).receivedAt = now
        /\ \E id \in inflight : inflight' = inflight \ {id}

\* C17: with several calls in flight, the entry of each call that settles (a
\* reply or a failure response) is appended after all entries the timeline has
\* when it settles, so the entries stand in the order the calls settle, whatever
\* the order they were sent in, and no entry is lost or overwritten.
C17_ArrivalOrder == [][C17_Step]_vars

\* two calls were in flight; the one sent second has settled first with a
\* reply, which stands after the user turns of both, and the first is still out
C17_Witness ==
    /\ calls = 2 /\ inflight = {1}
    /\ lastOp = "resolve"
    /\ hist.sendText = 2 /\ hist.replies = 1
    /\ IsBotReply(Last(state.responses))
    /\ Len(state.responses) = GreetingTurns + 3

\* an inbound frame that carries no reply (hist counts the frames that do: text
\* that parses as a JSON object with a messages list)
C18_Step ==
    (lastOp' = "onmessage" /\ hist'.replies = hist.replies) =>
        /\ state' = state
        /\ effects' = << >>

\* C18: an inbound frame that is not text, or text that is not JSON, or JSON
\* without a messages list, is dropped: responses, conversationId and contextSent
\* are unchanged, no failure response is appended and no subscriber is called.
C18_MalformedDropped == [][C18_Step]_vars

\* a text frame that could not be handled has been dropped by a manager that
\* has a timeline, a subscriber and a conversation open
C18_Witness ==
    /\ lastOp = "onmessage"
    /\ threw
    /\ frames = 1 /\ hist.replies = 0
    /\ state.responses # << >>
    /\ subscribers # << >>
    /\ effects = << >>

C19_Step ==
    (~isUsingWebSockets(config) /\ lastOp' \in {"resolve", "reject"}) =>
        /\ Len(state'.responses) = Len(state.responses) + 1
        /\ SubSeq(state'.responses, 1, Len(state.responses)) = state.responses
        /\ Last(state'.responses).type = "bot"
        /\ lastOp' = "reject" => IsFailure(Last(state'.responses))

\* C19: on the unary transport every call that settles appends exactly one
\* bot entry for it, the failure response if the call rejected: never two
\* entries for one call and never none.
C19_ExactlyOne == [][C19_Step]_vars

\* C20: currentConversationId() is the conversationId of the reply applied
\* last since the last reset() or since construction (hist.lastReplyId, which
\* only an applied reply and reset write), and undefined when there has been
\* none; greeting, failure responses, user turns and sentinels leave it alone.
C20_CurrentConversationId == currentConversationId = hist.lastReplyId

\* two replies of different conversations have been applied: the id is the
\* second one's
C20_Witness ==
    /\ currentConversationId = "c2"
    /\ hist.replies = 2
    /\ \E i \in DOMAIN state.responses :
          /\ i < Len(state.responses)
          /\ IsBotReply(state.responses[i])
          /\ state.responses[i].payload.conversationId = "c1"
    /\ IsBotReply(Last(state.responses))

\* a function is called only while it is registered: it was registered when
\* the step began, or the step is the subscribe that registers it
C21_CalledWhileRegistered ==
    \A j \in DOMAIN effects' :
        effects'[j].kind = "notify" =>
            \/ \E i \in DOMAIN subscribers : subscribers[i] = effects'[j].fn
            \/ lastOp' = "subscribe"

\* and no unsubscribe of it has returned earlier in the step
C21_NotAfterUnsubscribe ==
    \A i, j \in DOMAIN effects' :
        (i < j /\ effects'[i].kind = "unsubscribe" /\ effects'[j].kind = "notify")
            => effects'[j].fn # effects'[i].fn

\* C21: once unsubscribe(fn) or unsubscribeAll() has returned, fn is not called
\* again unless it is subscribed again, also when the unsubscribe call is made
\* by another subscriber during a notification round.
C21_NoCallAfterUnsubscribe ==
    [][C21_CalledWhileRegistered /\ C21_NotAfterUnsubscribe]_vars

====
